---- MODULE Spec2Model ----
(***************************************************************************)
(* Expense tracker: the idempotent-write protocol.                         *)
(*                                                                         *)
(* Server side: backend/controllers/expenseController.js (createExpense,   *)
(* deleteExpense) over the Expense collection of backend/models/Expense.js *)
(* with its unique indexes.  Client side: the App component (frontend),    *)
(* its pending slot in localStorage, requestWithRetry, submitExpense and   *)
(* the two effects that load and replay a pending submission.              *)
(*                                                                         *)
(* Amounts are integers in thousandths (1995 is 1.995).  Strings that the  *)
(* code trims are sequences of one-character strings.                      *)
(***************************************************************************)
EXTENDS Integers, Sequences, FiniteSets, Bags, TLC

\* ------------------------------------------------------------------ bounds
MaxReqs == 3        \* POST /api/expenses requests issued by direct API callers
MaxPosts == 3       \* POST /api/expenses requests issued by the browser
MaxKeys == 2        \* form submissions that pass validation (keys generated)
MaxDeletes == 2     \* deleteExpense calls of the sequential caller
MaxRetries == 2     \* largest retries argument given to requestWithRetry

\* ------------------------------------------------------------ input domains
Users == {"u1", "u2"}
K1 == <<"k", "1">>
K2 == <<"k", "2">>
Food == <<"F", "o", "o", "d">>
Dinner == <<"D", "i", "n">>
ValidDates == {"2026-01-05", "2026-02-18", "2026-03-09"}
Travel == <<"T", "r", "i", "p">>

Num(m) == [kind |-> "num", mills |-> m]
NaN == [kind |-> "nan", mills |-> 0]

\* A request body.  sub and owner are history fields: the number of the form
\* submission the body was built for and the account that submitted the form
\* (0 and "" for a direct API caller); the server ignores them.
Body(a, k) ==
    [amount |-> a, category |-> Food, description |-> Dinner,
     date |-> "2026-02-18", idempotencyKey |-> k, sub |-> 0, owner |-> ""]

\* Request bodies direct API callers send: two valid payloads under one key.
ApiBodies == {Body(Num(199500), K1), Body(Num(1250), K1)}

\* Bodies with one field that the validation of createExpense refuses: a
\* missing key, a key of white space, an amount that is not a number, zero or
\* negative, a category of white space, no description, a date that does not
\* parse.
InvalidBodies ==
    {[Body(Num(199500), K1) EXCEPT !.idempotencyKey = <<>>],
     [Body(Num(199500), K1) EXCEPT !.idempotencyKey = <<" ", " ">>],
     Body(NaN, K1),
     Body(Num(0), K1),
     Body(Num(-5000), K1),
     [Body(Num(199500), K1) EXCEPT !.category = <<" ">>],
     [Body(Num(199500), K1) EXCEPT !.description = <<>>],
     [Body(Num(199500), K1) EXCEPT !.date = "2026-13-45"]}

\* ------------------------------------------------------- pure helper functions
IsSpace(c) == c = " "

RECURSIVE TrimLeft(_)
TrimLeft(s) ==
    IF s = <<>> THEN s
    ELSE IF IsSpace(Head(s)) THEN TrimLeft(Tail(s)) ELSE s

RECURSIVE TrimRight(_)
TrimRight(s) ==
    IF s = <<>> THEN s
    ELSE IF IsSpace(s[Len(s)]) THEN TrimRight(SubSeq(s, 1, Len(s) - 1)) ELSE s

\* String.prototype.trim
Trim(s) == TrimRight(TrimLeft(s))

\* Number.isFinite(Number(amount))
IsFinite(a) == a.kind = "num"

\* Number(parsedAmount.toFixed(2)): round to hundredths (half away from zero;
\* inputs whose third decimal is 5 depend on the binary representation and
\* are not used).
ToFixed2(m) == ((m + 5) \div 10) * 10

\* Number.isNaN(new Date(date).getTime()) is false
DateParses(d) == d \in ValidDates

\* new Date(date).getTime(), in days
DateTime(d) ==
    CASE d = "2026-01-05" -> 20458
      [] d = "2026-02-18" -> 20502
      [] d = "2026-03-09" -> 20521

\* --------------------------------------------------------------- the store
NoExpense ==
    [id |-> 0, user |-> "", amount |-> 0, category |-> <<>>,
     description |-> <<>>, date |-> "", idempotencyKey |-> <<>>]

VARIABLES
    store,      \* the Expense collection: a set of documents
    nextId,     \* the next _id the storage layer hands out
    reqs,       \* createExpense invocations in progress or just answered (a bag)
    issued,     \* POST /api/expenses requests issued so far
    \* ---- the browser
    user,               \* useState(readStoredAuth): "" when logged out
    slot,               \* localStorage[PENDING_EXPENSE_KEY]
    pendingExpense,     \* useState(null)
    replayAttempted,    \* useState(false)
    expenseSubmitting,  \* useState(false)
    expenseForm,        \* useState({ amount: '', category, description: '', date })
    submitInfo,         \* useState('')
    rendered,           \* the state the last commit rendered (the effects' closure)
    chains,             \* submitExpense calls suspended in requestWithRetry (a bag)
    keyCount,           \* createIdempotencyKey calls so far
    subs,               \* history: form submissions that passed validation
    autoReplays,        \* history: replays started by the effect in this activation
    pendingFrom,        \* history: what set pendingExpense ("none", "load", "save")
    \* ---- callers observed on their own
    dels,       \* history: the deleteExpense calls of a sequential caller
    rw,         \* one requestWithRetry call with its own operation
    got         \* the latest getExpenses call and its response

serverVars == <<store, nextId, reqs, issued>>
clientVars == <<user, slot, pendingExpense, replayAttempted, expenseSubmitting,
                expenseForm, submitInfo,
                rendered, chains, keyCount, subs, autoReplays, pendingFrom>>
callVars == <<dels, rw, got>>
vars == <<serverVars, clientVars, callVars>>

\* Expense.findOne({ user, idempotencyKey })
FindOneByKeyAlone(s, u, k) ==
    IF \E x \in s : x.idempotencyKey = k
    THEN CHOOSE x \in s : x.idempotencyKey = k
    ELSE NoExpense

FindOne(s, u, k) ==
    IF \E x \in s : x.user = u /\ x.idempotencyKey = k
    THEN CHOOSE x \in s : x.user = u /\ x.idempotencyKey = k
    ELSE NoExpense

\* The documents of s that make the unique indexes reject an insert of a
\* document with user u and idempotencyKey k:
\*   idempotencyKey: { unique: true }                 (field-level index)
\*   index({ user: 1, idempotencyKey: 1 }, unique)    (compound index)
NoUniqueIndex(s, u, k) == {}

IndexConflicts(s, u, k) ==
    {x \in s : x.idempotencyKey = k}
        \cup {x \in s : x.user = u /\ x.idempotencyKey = k}

\* ------------------------------------------------------------ createExpense
\* The checks of lines 45-63, in order; 0 when the body passes.
NoValidation(b) == 0

ValidationStatus(b) ==
    IF Trim(b.idempotencyKey) = <<>> THEN 400
    ELSE IF ~IsFinite(b.amount) \/ b.amount.mills <= 0 THEN 400
    ELSE IF Trim(b.category) = <<>> THEN 400
    ELSE IF Trim(b.description) = <<>> THEN 400
    ELSE IF ~DateParses(b.date) THEN 400
    ELSE 0

\* The document passed to Expense.create (lines 78-85).
NewExpenseFromBody(id, u, b) ==
    [id |-> id, user |-> IF "user" \in DOMAIN b THEN b.user ELSE u,
     amount |-> ToFixed2(b.amount.mills),
     category |-> Trim(b.category), description |-> Trim(b.description),
     date |-> b.date, idempotencyKey |-> b.idempotencyKey]

NewExpense(id, u, b) ==
    [id |-> id, user |-> u, amount |-> ToFixed2(b.amount.mills),
     category |-> Trim(b.category), description |-> Trim(b.description),
     date |-> b.date, idempotencyKey |-> Trim(b.idempotencyKey)]

\* The validators of ExpenseSchema (models/Expense.js, lines 5-10): every path
\* is required, which refuses an empty string; amount has no minimum.
SchemaValidates(doc) ==
    /\ doc.category # <<>>
    /\ doc.description # <<>>
    /\ doc.idempotencyKey # <<>>

\* A createExpense invocation.  pc is the await it is suspended at; status 0
\* means no response has been sent.  chain/attempt name the kind of caller
\* ("api", "fresh", "replay") and the attempt of requestWithRetry that issued
\* it; live is FALSE once nobody waits for the response.  atCall, lookups,
\* creates, rejectedBy, raced and fault are history fields: the caller's
\* document for the key when a direct caller issued the request, the numbers
\* of Expense.findOne and Expense.create calls made, the owner of the document
\* that made the unique index reject the insert, whether the request was past its lookup and
\* before its create together with another request of the same user and key,
\* and whether one of its storage calls threw a connection error.
NewReq(u, b, c, a) ==
    [user |-> u, body |-> b, pc |-> "lookup", status |-> 0, data |-> NoExpense,
     info |-> FALSE, chain |-> c, attempt |-> a, live |-> TRUE,
     atCall |-> IF c = "api" THEN FindOne(store, u, Trim(b.idempotencyKey)).id ELSE 0,
     lookups |-> 0, creates |-> 0, rejectedBy |-> "", raced |-> FALSE,
     fault |-> FALSE]

Respond(r, st, doc, existing) ==
    [r EXCEPT !.pc = "done", !.status = st, !.data = doc, !.info = existing]

Reqs == BagToSet(reqs)

\* The history fields are kept for the requests of direct API callers only.
Recorded(r) ==
    IF r.chain = "api" THEN r
    ELSE [r EXCEPT !.lookups = 0, !.creates = 0, !.rejectedBy = "", !.raced = FALSE,
                   !.fault = FALSE]

\* reqs with one copy of r replaced by r2; the response of a request nobody
\* waits for is discarded as soon as it is sent.
Step(r, r2) ==
    IF r2.pc = "done" /\ ~r2.live
    THEN reqs (-) SetToBag({r})
    ELSE (reqs (-) SetToBag({r})) (+) SetToBag({Recorded(r2)})

\* r once its caller has stopped waiting for the response
Orphan(r) == [r EXCEPT !.live = FALSE, !.chain = "orphan", !.attempt = 0, !.raced = FALSE]

\* b with every request of user u and key k that is suspended at its create
\* marked as raced (history only)
MarkRivals(b, u, k) ==
    LET Rival(q) == q.pc = "create" /\ q.user = u /\ Trim(q.body.idempotencyKey) = k
        Mark(q) == IF Rival(q) THEN Recorded([q EXCEPT !.raced = TRUE]) ELSE q
        Unmarked(q) == [q EXCEPT !.raced = FALSE]
    IN  [q \in {Mark(x) : x \in BagToSet(b)} |->
            (IF Mark(q) = q THEN CopiesIn(q, b) ELSE 0)
            + (IF Rival(q) /\ q.raced THEN CopiesIn(Unmarked(q), b) ELSE 0)]

\* The request r goes on from its lookup to Expense.create.
PassLookup(looked, r) ==
    LET k == Trim(r.body.idempotencyKey)
        rival == \E q \in Reqs :
                    q.pc = "create" /\ q.user = r.user /\ Trim(q.body.idempotencyKey) = k
        moved == Step(r, [looked EXCEPT !.pc = "create", !.raced = rival])
    IN  IF rival THEN MarkRivals(moved, r.user, k) ELSE moved

\* Lines 38-76: validation, then the lookup of the caller's document.  The
\* last disjunct is a storage call that throws an error that is neither a
\* duplicate key nor a ValidationError.
CreateExpenseLookup(r) ==
    /\ r.pc = "lookup"
    /\ LET k == Trim(r.body.idempotencyKey)
           found == FindOne(store, r.user, k)
           looked == [r EXCEPT !.lookups = @ + 1]
       IN  \/ /\ ValidationStatus(r.body) # 0
              /\ reqs' = Step(r, Respond(r, 400, NoExpense, FALSE))
           \/ /\ ValidationStatus(r.body) = 0
              /\ found # NoExpense
              /\ reqs' = Step(r, Respond(looked, 200, found, TRUE))
           \/ /\ ValidationStatus(r.body) = 0
              /\ found = NoExpense
              /\ reqs' = PassLookup(looked, r)
           \/ /\ ValidationStatus(r.body) = 0
              /\ reqs' = Step(r, Respond([looked EXCEPT !.fault = TRUE], 500, NoExpense, FALSE))
    /\ UNCHANGED <<store, nextId, issued>>
    /\ UNCHANGED <<clientVars, callVars>>

\* Lines 78-87 and the entry of the catch block: Expense.create.  A document
\* the schema refuses makes it throw a ValidationError (lines 104-107).
CreateExpenseCreate(r) ==
    /\ r.pc = "create"
    /\ LET k == Trim(r.body.idempotencyKey)
           doc == NewExpense(nextId, r.user, r.body)
           clash == IndexConflicts(store, r.user, k)
           called == [r EXCEPT !.creates = @ + 1]
       IN  \/ /\ ~SchemaValidates(doc)
              /\ reqs' = Step(r, Respond(called, 400, NoExpense, FALSE))
              /\ UNCHANGED <<store, nextId>>
           \/ /\ SchemaValidates(doc)
              /\ clash = {}
              /\ store' = store \cup {doc}
              /\ nextId' = nextId + 1
              /\ reqs' = Step(r, Respond(called, 201, doc, FALSE))
           \/ /\ SchemaValidates(doc)
              /\ clash # {}
              /\ \E x \in clash :
                    reqs' = Step(r, [called EXCEPT !.pc = "catch", !.rejectedBy = x.user])
              /\ UNCHANGED <<store, nextId>>
           \/ /\ reqs' = Step(r, Respond([called EXCEPT !.fault = TRUE], 500, NoExpense, FALSE))
              /\ UNCHANGED <<store, nextId>>
    /\ UNCHANGED issued
    /\ UNCHANGED <<clientVars, callVars>>

\* Lines 88-110: the duplicate-key handler.  When its own lookup throws, the
\* rejection leaves the catch block: the handler sends nothing (status 0), as
\* under Express 4, or the framework's error handler answers 500, as under
\* Express 5.
CreateExpenseCatch(r) ==
    /\ r.pc = "catch"
    /\ LET k == Trim(r.body.idempotencyKey)
           found == FindOne(store, r.user, k)
           looked == [r EXCEPT !.lookups = @ + 1]
       IN  \/ /\ found # NoExpense
              /\ reqs' = Step(r, Respond(looked, 200, found, TRUE))
           \/ /\ found = NoExpense
              /\ reqs' = Step(r, Respond(looked, 500, NoExpense, FALSE))
           \/ reqs' = Step(r, [looked EXCEPT !.pc = "done", !.fault = TRUE])
           \/ reqs' = Step(r, Respond([looked EXCEPT !.fault = TRUE], 500, NoExpense, FALSE))
    /\ UNCHANGED <<store, nextId, issued>>
    /\ UNCHANGED <<clientVars, callVars>>

\* -------------------------------------------------------------- getExpenses
\* Lines 8-12: the query; an empty or missing category adds no condition.
QueryAnyCategory(s, u, category) == {x \in s : x.user = u}

Query(s, u, category) ==
    {x \in s : x.user = u /\ (category # <<>> => x.category = category)}

\* Lines 15-18: 1 for ascending dates, -1 for descending.
NewestFirst(sort) == -1

SortOption(sort) == IF sort = "date_asc" THEN 1 ELSE -1

\* The orders in which the storage layer can come upon the documents of S.
OrdersOf(S) ==
    {f \in [1..Cardinality(S) -> S] : \A i, j \in DOMAIN f : i # j => f[i] # f[j]}

\* a comes no later than b in a result sorted by { date: dir }
NoLater(a, b, dir) ==
    IF dir = 1 THEN DateTime(a.date) <= DateTime(b.date)
    ELSE DateTime(a.date) >= DateTime(b.date)

RECURSIVE InsertByDate(_, _, _)
InsertByDate(x, s, dir) ==
    IF s = <<>> THEN <<x>>
    ELSE IF NoLater(Head(s), x, dir) THEN <<Head(s)>> \o InsertByDate(x, Tail(s), dir)
    ELSE <<x>> \o s

\* .sort(sortOption): documents of equal date stay in the order they were found
RECURSIVE SortByDate(_, _)
SortByDate(s, dir) ==
    IF s = <<>> THEN <<>>
    ELSE InsertByDate(s[Len(s)], SortByDate(SubSeq(s, 1, Len(s) - 1), dir), dir)

\* expenses.reduce((acc, curr) => acc + curr.amount, 0)
RECURSIVE TotalAmount(_)
TotalAmount(s) == IF s = <<>> THEN 0 ELSE Head(s).amount + TotalAmount(Tail(s))

\* getExpenses for caller u with req.query = { category, sort } ("" and <<>>
\* when missing).  The second disjunct is a storage call that throws.
GetCall(u, category, sort) ==
    /\ reqs = EmptyBag
    /\ LET asked == [user |-> u, category |-> category, sort |-> sort]
       IN  \/ \E found \in OrdersOf(Query(store, u, category)) :
                 LET expenses == SortByDate(found, SortOption(sort))
                 IN  got' = asked @@ [status |-> 200, data |-> expenses,
                                      count |-> Len(expenses),
                                      total |-> TotalAmount(expenses)]
           \/ got' = asked @@ [status |-> 500, data |-> <<>>, count |-> 0, total |-> 0]
    /\ UNCHANGED <<serverVars, clientVars, dels, rw>>

\* ------------------------------------------------------------ deleteExpense
\* An _id the driver can cast to an ObjectId; casting any other value throws a
\* CastError.  Malformed is such a value.
IsObjectId(id) == id > 0
Malformed == -1

\* The collection after Expense.findOneAndDelete({ _id: id, user: u }).
StoreAfterDeleteAnyOwner(s, u, id) == {x \in s : x.id # id}

StoreAfterDelete(s, u, id) == {x \in s : ~(x.id = id /\ x.user = u)}

\* The response of deleteExpense (lines 117-130) when the storage call does
\* not fail: the deleted document with 200, or 404 'Expense not found'.
DeleteOutcomeNoNullCheck(s, u, id) ==
    IF IsObjectId(id) /\ \E x \in s : x.id = id /\ x.user = u
    THEN [status |-> 200, data |-> CHOOSE x \in s : x.id = id /\ x.user = u]
    ELSE [status |-> 200, data |-> NoExpense]

DeleteOutcome(s, u, id) ==
    IF IsObjectId(id) /\ \E x \in s : x.id = id /\ x.user = u
    THEN [status |-> 200, data |-> CHOOSE x \in s : x.id = id /\ x.user = u]
    ELSE [status |-> 404, data |-> NoExpense]

\* One deleteExpense call of a caller who makes one call at a time, with what
\* the caller saw of it.  The second disjunct is a storage call that throws
\* an error other than a CastError (line 132).
DeleteCall(u, id) ==
    /\ reqs = EmptyBag
    /\ Len(dels) < MaxDeletes
    /\ LET out == DeleteOutcome(store, u, id)
           seen == [user |-> u, id |-> id, before |-> store, fault |-> FALSE]
       IN  \/ /\ store' = StoreAfterDelete(store, u, id)
              /\ dels' = Append(dels, seen @@ [status |-> out.status, data |-> out.data,
                                               after |-> store'])
           \/ /\ store' = store
              /\ dels' = Append(dels, [seen EXCEPT !.fault = TRUE]
                                      @@ [status |-> 500, data |-> NoExpense,
                                          after |-> store])
    /\ UNCHANGED <<nextId, reqs, issued, rw, got>>
    /\ UNCHANGED clientVars

\* Expense.findOneAndDelete({ _id, user }) is one atomic storage operation.
DeleteExpense(u, id) ==
    /\ store' = StoreAfterDelete(store, u, id)
    /\ UNCHANGED <<nextId, reqs, issued>>
    /\ UNCHANGED <<clientVars, callVars>>

\* ------------------------------------------------------- direct API callers
\* A createExpense call of a caller who makes one call at a time.
CreateCall(u, b) ==
    /\ reqs = EmptyBag
    /\ issued < MaxReqs
    /\ issued' = issued + 1
    /\ reqs' = SetToBag({NewReq(u, b, "api", 0)})
    /\ UNCHANGED <<store, nextId>>
    /\ UNCHANGED <<clientVars, callVars>>

ApiCreate(u, b) ==
    /\ issued < MaxReqs
    /\ issued' = issued + 1
    /\ reqs' = reqs (+) SetToBag({NewReq(u, b, "api", 0)})
    /\ UNCHANGED <<store, nextId>>
    /\ UNCHANGED <<clientVars, callVars>>

\* The response of a finished invocation has reached the direct caller.
ApiReply(r) ==
    /\ r.chain = "api"
    /\ r.pc = "done"
    /\ reqs' = reqs (-) SetToBag({r})
    /\ UNCHANGED <<store, nextId, issued>>
    /\ UNCHANGED <<clientVars, callVars>>


\* =================================================================== browser
\* --------------------------------------------------------- requestWithRetry
Retries == 1        \* the retries argument of every call site
DelayMs == 600      \* the default delayMs

\* const retryable = !status || status >= 500   (status 0: no response)
AlwaysRetryable(status) == TRUE

Retryable(status) == status = 0 \/ status >= 500

\* if (!retryable || attempt === retries) break;  TRUE when the loop goes on
\* to another attempt after a failure with the given status.
RetryWhileRetryable(status, attempt, retries) == Retryable(status)

ShouldRetry(status, attempt, retries) == Retryable(status) /\ attempt # retries

\* After a failed attempt of a call site (retries = 1): TRUE when the loop
\* goes on to another attempt.
RetriesAgain(status, attempt) == ShouldRetry(status, attempt, Retries)

\* await wait(delayMs * (attempt + 1))
SameDelay(delayMs, attempt) == delayMs

RetryDelay(delayMs, attempt) == delayMs * (attempt + 1)

\* What one invocation of requestFn can end in: a resolved response (2xx) or
\* a rejection with the status of error.response (0 when there is none).
Outcomes == {200, 0, 400, 404, 500, 503}
Resolved(o) == o \in 200..299

\* The delayMs arguments tried: the default and another one.
DelayValues == {DelayMs, 250}

\* requestWithRetry(requestFn, retries, delayMs) at its first await.
NewRetry(retries, delayMs) ==
    [pc |-> "call", retries |-> retries, delayMs |-> delayMs, attempt |-> 0,
     outcomes |-> <<>>, delays |-> <<>>, result |-> 0]

\* await requestFn() settles with outcome o: the function returns the
\* response, or the catch block records the error and either breaks out of
\* the loop to throw it or goes on to wait.  outcomes and delays are history:
\* the outcomes of the invocations made and the delays waited so far.
RetryInvoke(o) ==
    /\ rw.pc = "call"
    /\ LET seen == [rw EXCEPT !.outcomes = Append(@, o)]
       IN  rw' = IF Resolved(o)
                 THEN [seen EXCEPT !.pc = "returned", !.result = o]
                 ELSE IF ShouldRetry(o, rw.attempt, rw.retries)
                 THEN [seen EXCEPT !.pc = "wait"]
                 ELSE [seen EXCEPT !.pc = "thrown", !.result = o]
    /\ UNCHANGED <<serverVars, clientVars, dels, got>>

\* await wait(...) is over: the loop makes its next attempt.
RetryWait ==
    /\ rw.pc = "wait"
    /\ rw' = [rw EXCEPT !.pc = "call", !.attempt = @ + 1,
                        !.delays = Append(@, RetryDelay(rw.delayMs, rw.attempt))]
    /\ UNCHANGED <<serverVars, clientVars, dels, got>>

\* ------------------------------------------------------------ pending slot
NoPending == [kind |-> "none"]
NoItem == [kind |-> "absent"]
Garbage == [kind |-> "garbage"]
Unmounted == [kind |-> "unmounted"]

\* { ...payload, userKey: accountKey }
PendingRecord(payload, key) == [kind |-> "record", payload |-> payload, userKey |-> key]

\* JSON.stringify / JSON.parse of a pending record: strings and finite numbers
\* survive, a non-finite amount is written as null, undecodable text throws.
JsonStringify(rec) ==
    [kind |-> "json",
     value |-> IF IsFinite(rec.payload.amount) THEN rec
               ELSE [rec EXCEPT !.payload.amount = [kind |-> "null", mills |-> 0]]]

JsonParseThrows(item) == item.kind # "json"
JsonParse(item) == item.value

\* Slot contents that are JSON but no pending record.  JsonNull is the text
\* null.  JsonNumber is the text of a number: NotARecord is that number as
\* the code reads it, every property of it undefined.
NoFields ==
    [amount |-> NaN, category |-> <<>>, description |-> <<>>, date |-> "",
     idempotencyKey |-> <<>>, sub |-> 0, owner |-> ""]
NotARecord == [kind |-> "number", payload |-> NoFields, userKey |-> ""]
JsonNull == [kind |-> "json", value |-> [kind |-> "null"]]
JsonNumber == [kind |-> "json", value |-> NotARecord]

\* parsed.userKey throws a TypeError when parsed is null.
ReadThrows(parsed) == parsed.kind = "null"

\* A stored auth object that carries a token but neither _id nor email.
TokenOnly == "t1"

\* const accountKey = user?._id || user?.email || null
AccountKey(u) == IF u = TokenOnly THEN "" ELSE u

\* What savePendingExpense puts in the slot for payload and account u.
SlotRecord(payload, u) == JsonStringify(PendingRecord(payload, AccountKey(u)))

\* user?.token
HasToken(u) == u # ""

\* createIdempotencyKey: the n-th call returns a value no earlier call returned
KeyPool == <<K1, K2, <<"k", "3">>, <<"k", "4">>>>
CreateIdempotencyKey(n) == KeyPool[n]

\* What the form can hold when it is submitted: amount, category,
\* description, date.
Form(a, c, d, dt) == [amount |-> a, category |-> c, description |-> d, date |-> dt]
FormInputs == {Form(Num(199500), Food, Dinner, "2026-02-18"),
               Form(Num(0), Food, Dinner, "2026-02-18")}

\* A form whose date field holds text that is not a calendar date.
DateForms == {Form(Num(199500), Food, Dinner, "2026-13-45")}

\* The form as useState creates it and as submitExpense and handleLogout
\* reset it: amount '' (Number('') is 0), the first category, description ''
\* and today's date.
Blank == Form(Num(0), Food, <<>>, "2026-02-18")

\* The values of submitInfo.
Saving == "Saving expense..."
Resuming == "Resuming pending expense submission..."
Saved == "Expense saved successfully."
ExistingEntry == "Retrieved existing entry (Idempotent)"

\* handleExpenseSubmit, lines 432-455: TRUE when the form passes
FormValid(f) ==
    /\ IsFinite(f.amount) /\ f.amount.mills > 0
    /\ Trim(f.category) # <<>>
    /\ Trim(f.description) # <<>>
    /\ f.date # ""

\* The state a render closes over.
Current ==
    [kind |-> "mounted", user |-> user, pendingExpense |-> pendingExpense,
     replayAttempted |-> replayAttempted, expenseSubmitting |-> expenseSubmitting]

\* No commit is outstanding: event handlers see the rendered state.
Idle == rendered = Current

Chains == BagToSet(chains)

\* A suspended submitExpense call: the payload it posts, the account whose
\* token its headers carry, and the attempt of requestWithRetry in flight.
Chain(payload, u, isReplay, attempt) ==
    [payload |-> payload, user |-> u, isReplay |-> isReplay, attempt |-> attempt]

ChainKind(c) == IF c.isReplay THEN "replay" ELSE "fresh"

\* axios.post(`${API_BASE_URL}/expenses`, payload, { headers: authHeaders })
\* The body is the payload; the userKey a replayed record also carries is a
\* field the server does not read.
PostWithKeyPerRequest(c) ==
    NewReq(c.user, [c.payload EXCEPT !.idempotencyKey = CreateIdempotencyKey(issued + 1)],
           ChainKind(c), c.attempt)

Post(c) == NewReq(c.user, c.payload, ChainKind(c), c.attempt)

\* The request a chain is waiting on.
Awaits(c, r) ==
    /\ r.live
    /\ r.chain = ChainKind(c)
    /\ r.attempt = c.attempt
    /\ r.user = c.user
    /\ r.body = c.payload

\* ------------------------------------------------------------ the effects
\* The pending-load effect (deps: accountKey).  Gives the values it sets:
\* pendingExpense and the slot it leaves.
LoadEffectNoOwnerCheck(u, item) ==
    IF AccountKey(u) = "" THEN [pending |-> NoPending, slot |-> item]
    ELSE IF item = NoItem THEN [pending |-> NoPending, slot |-> item]
    ELSE IF JsonParseThrows(item) \/ ReadThrows(JsonParse(item))
         THEN [pending |-> NoPending, slot |-> NoItem]
    ELSE [pending |-> JsonParse(item), slot |-> item]

LoadEffect(u, item) ==
    IF AccountKey(u) = "" THEN [pending |-> NoPending, slot |-> item]
    ELSE IF item = NoItem THEN [pending |-> NoPending, slot |-> item]
    ELSE IF JsonParseThrows(item) \/ ReadThrows(JsonParse(item))
         THEN [pending |-> NoPending, slot |-> NoItem]
    ELSE IF JsonParse(item).userKey # "" /\ JsonParse(item).userKey # AccountKey(u)
         THEN [pending |-> NoPending, slot |-> item]
    ELSE [pending |-> JsonParse(item), slot |-> item]

\* The replay effect (deps: pendingExpense, replayAttempted, submitExpense,
\* user?.token): TRUE when it goes past its guard, in the closure cl.
ReplayFiresIgnoringAttempted(cl) ==
    HasToken(cl.user) /\ cl.pendingExpense # NoPending

ReplayFiresUnlessSubmitting(cl) ==
    /\ HasToken(cl.user) /\ cl.pendingExpense # NoPending /\ ~cl.replayAttempted
    /\ ~cl.expenseSubmitting

ReplayFires(cl) ==
    HasToken(cl.user) /\ cl.pendingExpense # NoPending /\ ~cl.replayAttempted

\* The account key takes a new value: the component mounts or user changes.
Activation == rendered = Unmounted \/ AccountKey(rendered.user) # AccountKey(user)

LoadEffectRuns == rendered = Unmounted \/ AccountKey(rendered.user) # AccountKey(user)

ReplayEffectRuns ==
    \/ rendered = Unmounted
    \/ rendered.user # user
    \/ rendered.pendingExpense # pendingExpense
    \/ rendered.replayAttempted # replayAttempted

\* One React commit: the render of the current state followed by the effects
\* whose dependencies changed, all run in the closure of that render.
Commit ==
    /\ ~Idle
    /\ LET cl == Current
           load == LoadEffect(user, slot)
           fires == ReplayEffectRuns /\ ReplayFires(cl)
           c == Chain(cl.pendingExpense.payload, cl.user, TRUE, 0)
       IN  /\ rendered' = cl
           /\ slot' = IF LoadEffectRuns THEN load.slot ELSE slot
           /\ pendingExpense' = IF LoadEffectRuns THEN load.pending ELSE pendingExpense
           /\ replayAttempted' = IF fires THEN TRUE
                                 ELSE IF LoadEffectRuns THEN FALSE
                                 ELSE replayAttempted
           /\ autoReplays' = (IF Activation THEN 0 ELSE autoReplays)
                                + (IF fires THEN 1 ELSE 0)
           /\ pendingFrom' = IF ~LoadEffectRuns THEN pendingFrom
                             ELSE IF load.pending = NoPending THEN "none" ELSE "load"
           /\ IF fires
              THEN /\ issued < MaxPosts
                   /\ issued' = issued + 1
                   /\ expenseSubmitting' = TRUE
                   /\ submitInfo' = Resuming
                   /\ chains' = chains (+) SetToBag({c})
                   /\ reqs' = reqs (+) SetToBag({Post(c)})
              ELSE UNCHANGED <<issued, expenseSubmitting, submitInfo, chains, reqs>>
    /\ UNCHANGED <<store, nextId, user, keyCount, subs, expenseForm>>
    /\ UNCHANGED callVars

\* --------------------------------------------------------------- handlers
\* handleAuthSubmit succeeding for account u (the auth form shows only when
\* nobody is logged in).
Login(u) ==
    /\ Idle
    /\ user = ""
    /\ user' = u
    /\ UNCHANGED serverVars
    /\ UNCHANGED <<slot, pendingExpense, replayAttempted, expenseSubmitting,
                   expenseForm, submitInfo,
                   rendered, chains, keyCount, subs, autoReplays, pendingFrom>>
    /\ UNCHANGED callVars

\* handleLogout
Logout ==
    /\ Idle
    /\ user # ""
    /\ user' = ""
    /\ expenseForm' = Blank
    /\ submitInfo' = ""
    /\ UNCHANGED serverVars
    /\ UNCHANGED <<slot, pendingExpense, replayAttempted, expenseSubmitting,
                   rendered, chains, keyCount, subs, autoReplays, pendingFrom>>
    /\ UNCHANGED callVars

\* reqs with every request marked as awaited by nobody
RECURSIVE OrphanAll(_, _)
OrphanAll(rs, acc) ==
    IF rs = {} THEN acc
    ELSE LET r == CHOOSE x \in rs : TRUE
         IN  OrphanAll(rs \ {r},
                       acc (+) [x \in {Orphan(r)} |-> CopiesIn(r, reqs)])

BagOfOrphans == OrphanAll({r \in Reqs : r.pc # "done"}, EmptyBag)

\* The page is loaded or reloaded: the component state starts over, user is
\* read back from localStorage, and nobody waits for the responses of the
\* requests still under way.
Reload ==
    /\ rendered # Unmounted
    /\ rendered' = Unmounted
    /\ pendingExpense' = NoPending
    /\ replayAttempted' = FALSE
    /\ expenseSubmitting' = FALSE
    /\ expenseForm' = Blank
    /\ submitInfo' = ""
    /\ chains' = EmptyBag
    /\ reqs' = BagOfOrphans
    /\ pendingFrom' = "none"
    /\ UNCHANGED <<store, nextId, issued, user, slot, keyCount, subs, autoReplays>>
    /\ UNCHANGED callVars

\* submitExpense up to its first await, for a caller logged in as u: the
\* pending record is saved unless this is a replay, then the first POST goes
\* out.  Gives the chain that is left suspended.
\* savePendingExpense writes nothing when accountKey is null.
SavePendingIfEmpty(u, payload) ==
    IF AccountKey(u) = "" \/ slot # NoItem
    THEN [slot |-> slot, pending |-> pendingExpense, from |-> pendingFrom]
    ELSE [slot |-> JsonStringify(PendingRecord(payload, AccountKey(u))),
          pending |-> PendingRecord(payload, AccountKey(u)), from |-> "save"]

SavePendingExpense(u, payload) ==
    IF AccountKey(u) = ""
    THEN [slot |-> slot, pending |-> pendingExpense, from |-> pendingFrom]
    ELSE [slot |-> JsonStringify(PendingRecord(payload, AccountKey(u))),
          pending |-> PendingRecord(payload, AccountKey(u)), from |-> "save"]

SubmitExpense(payload, isReplay) ==
    LET saved == IF isReplay
                 THEN [slot |-> slot, pending |-> pendingExpense, from |-> pendingFrom]
                 ELSE SavePendingExpense(user, payload)
        c == Chain(payload, user, isReplay, 0)
    IN  /\ HasToken(user)
        /\ issued < MaxPosts
        /\ issued' = issued + 1
        /\ slot' = saved.slot
        /\ pendingExpense' = saved.pending
        /\ pendingFrom' = saved.from
        /\ expenseSubmitting' = TRUE
        /\ submitInfo' = (IF isReplay THEN Resuming ELSE Saving)
        /\ chains' = chains (+) SetToBag({c})
        /\ reqs' = reqs (+) SetToBag({Post(c)})

\* handleExpenseSubmit: the form is filled in with f and the "Save Expense"
\* button (disabled while expenseSubmitting) is pressed.  A form that fails
\* validation only clears submitInfo and sets submitError.
HandleExpenseSubmit(f) ==
    /\ Idle
    /\ user # ""
    /\ ~expenseSubmitting
    /\ expenseForm' = f
    /\ IF FormValid(f)
       THEN /\ keyCount < MaxKeys
            /\ keyCount' = keyCount + 1
            /\ subs' = subs + 1
            /\ SubmitExpense(
                   [amount |-> f.amount, category |-> Trim(f.category),
                    description |-> Trim(f.description), date |-> f.date,
                    idempotencyKey |-> CreateIdempotencyKey(keyCount + 1),
                    sub |-> subs + 1, owner |-> user],
                   FALSE)
       ELSE /\ submitInfo' = ""
            /\ UNCHANGED <<issued, slot, pendingExpense, expenseSubmitting, chains,
                           reqs, keyCount, subs, pendingFrom>>
    /\ UNCHANGED <<store, nextId, user, replayAttempted, rendered, autoReplays>>
    /\ UNCHANGED callVars

\* The "Retry pending save" button: shown while pendingExpense is set,
\* disabled while expenseSubmitting.
RetryPendingSave ==
    /\ Idle
    /\ user # ""
    /\ pendingExpense # NoPending
    /\ ~expenseSubmitting
    /\ SubmitExpense(pendingExpense.payload, TRUE)
    /\ UNCHANGED <<store, nextId, user, replayAttempted, rendered, keyCount, subs,
                   autoReplays, expenseForm>>
    /\ UNCHANGED callVars

\* ------------------------------------------- submitExpense after the await
\* requestWithRetry's attempt failed with the given status (0: no response).
\* Either the next attempt is posted or submitExpense's catch/finally runs.
AttemptFailed(c, status, rest) ==
    IF RetriesAgain(status, c.attempt)
    THEN LET c2 == [c EXCEPT !.attempt = @ + 1]
         IN  /\ issued < MaxPosts
             /\ issued' = issued + 1
             /\ chains' = (chains (-) SetToBag({c})) (+) SetToBag({c2})
             /\ reqs' = rest (+) SetToBag({Post(c2)})
             /\ UNCHANGED <<slot, pendingExpense, pendingFrom, expenseSubmitting,
                            expenseForm, submitInfo>>
    ELSE /\ chains' = chains (-) SetToBag({c})
         /\ reqs' = rest
         /\ expenseSubmitting' = FALSE
         /\ submitInfo' = ""
         /\ UNCHANGED <<issued, slot, pendingExpense, pendingFrom, expenseForm>>

\* clearPendingExpense
KeepPendingExpense ==
    /\ slot' = slot
    /\ pendingExpense' = pendingExpense
    /\ pendingFrom' = pendingFrom

ClearPendingExpense ==
    /\ slot' = NoItem
    /\ pendingExpense' = NoPending
    /\ pendingFrom' = "none"

\* The response r of the attempt chain c waits on arrives.
ChainResponse(c, r) ==
    /\ Awaits(c, r)
    /\ r.pc = "done"
    /\ r.status # 0
    /\ LET rest == reqs (-) SetToBag({r})
       IN  IF r.status < 300
           THEN /\ ClearPendingExpense
                /\ expenseForm' = Blank
                /\ submitInfo' = (IF r.info THEN ExistingEntry ELSE Saved)
                /\ expenseSubmitting' = FALSE
                /\ chains' = chains (-) SetToBag({c})
                /\ reqs' = rest
                /\ UNCHANGED issued
           ELSE AttemptFailed(c, r.status, rest)
    /\ UNCHANGED <<store, nextId, user, replayAttempted, rendered, keyCount, subs,
                   autoReplays>>
    /\ UNCHANGED callVars

\* The attempt chain c waits on ends without a response: the connection
\* failed or the 10 s timeout passed.  Its request may still run on the server.
ChainTimeout(c, r) ==
    /\ Awaits(c, r)
    /\ AttemptFailed(c, 0, Step(r, Orphan(r)))
    /\ UNCHANGED <<store, nextId, user, replayAttempted, rendered, keyCount, subs,
                   autoReplays>>
    /\ UNCHANGED callVars

\* The timer of the submitInfo effect (lines 516-526) fires: the notice goes
\* 3.2 s after it was set.
InfoTimer ==
    /\ Idle
    /\ submitInfo # ""
    /\ submitInfo' = ""
    /\ UNCHANGED serverVars
    /\ UNCHANGED <<user, slot, pendingExpense, replayAttempted, expenseSubmitting,
                   expenseForm, rendered, chains, keyCount, subs, autoReplays,
                   pendingFrom>>
    /\ UNCHANGED callVars

Deleted == "Expense deleted successfully."

\* handleDeleteExpense for a listed expense x of the logged-in account, the
\* user confirming: one DELETE through requestWithRetry, with what the page
\* saw of it.  The DELETE is answered 200; or no attempt reaches the server;
\* or the answer to the first attempt is lost and the retry is answered 404.
HandleDeleteExpense(x) ==
    /\ Idle
    /\ HasToken(user)
    /\ x.user = user
    /\ Len(dels) < MaxDeletes
    /\ LET out == DeleteOutcome(store, user, x.id)
           seen == [user |-> user, id |-> x.id, before |-> store, fault |-> FALSE]
           gone == StoreAfterDelete(store, user, x.id)
       IN  \/ /\ store' = gone
              /\ submitInfo' = Deleted
              /\ dels' = Append(dels, seen @@ [status |-> out.status, data |-> out.data,
                                               after |-> gone])
           \/ /\ store' = store
              /\ submitInfo' = ""
              /\ dels' = Append(dels, [seen EXCEPT !.fault = TRUE]
                                      @@ [status |-> 0, data |-> NoExpense,
                                          after |-> store])
           \/ /\ store' = gone
              /\ submitInfo' = ""
              /\ dels' = Append(dels, seen @@ [status |-> 404, data |-> NoExpense,
                                               after |-> gone])
    /\ UNCHANGED <<nextId, reqs, issued, rw, got>>
    /\ UNCHANGED <<user, slot, pendingExpense, replayAttempted, expenseSubmitting,
                   expenseForm, rendered, chains, keyCount, subs, autoReplays,
                   pendingFrom>>

\* ------------------------------------------------------------ specifications
\* The pending record an earlier page session of account u1 left in the slot:
\* its submission, the first, was saved and its POST never reached the server.
LeftOver ==
    SlotRecord([amount |-> Num(199500), category |-> Food, description |-> Dinner,
                date |-> "2026-02-18", idempotencyKey |-> CreateIdempotencyKey(1),
                sub |-> 1, owner |-> "u1"], "u1")

\* The page loads with nobody logged in; localStorage holds no pending record
\* or the one an earlier session left.
InitClient ==
    /\ user = ""
    /\ slot \in {NoItem, LeftOver}
    /\ pendingExpense = NoPending
    /\ replayAttempted = FALSE
    /\ expenseSubmitting = FALSE
    /\ expenseForm = Blank
    /\ submitInfo = ""
    /\ rendered = Unmounted
    /\ chains = EmptyBag
    /\ keyCount = (IF slot = NoItem THEN 0 ELSE 1)
    /\ subs = keyCount
    /\ autoReplays = 0
    /\ pendingFrom = "none"

InitStore ==
    /\ store = {}
    /\ nextId = 1
    /\ reqs = EmptyBag
    /\ issued = 0

\* No deleteExpense call observed, no requestWithRetry call under way.
NoRetry ==
    [pc |-> "idle", retries |-> 0, delayMs |-> 0, attempt |-> 0,
     outcomes |-> <<>>, delays |-> <<>>, result |-> 0]

NoGet == [status |-> 0]

InitCalls ==
    /\ dels = <<>>
    /\ rw = NoRetry
    /\ got = NoGet

Init == InitStore /\ InitClient /\ InitCalls

\* The page loads on a localStorage written by something else than this
\* page: the auth item is absent or an object with a token only, the pending
\* item is absent, undecodable text, or JSON that is no record.
InitStorage ==
    /\ InitStore /\ InitCalls
    /\ user \in {"", TokenOnly}
    /\ slot \in {NoItem, Garbage, JsonNull, JsonNumber}
    /\ pendingExpense = NoPending
    /\ replayAttempted = FALSE
    /\ expenseSubmitting = FALSE
    /\ expenseForm = Blank
    /\ submitInfo = ""
    /\ rendered = Unmounted
    /\ chains = EmptyBag
    /\ keyCount = 0
    /\ subs = 0
    /\ autoReplays = 0
    /\ pendingFrom = "none"

\* The server under direct API callers.
NextServer ==
    \/ \E u \in Users, b \in ApiBodies : ApiCreate(u, b)
    \/ \E u \in Users, x \in store : DeleteExpense(u, x.id)
    \/ \E r \in Reqs : CreateExpenseLookup(r)
    \/ \E r \in Reqs : CreateExpenseCreate(r)
    \/ \E r \in Reqs : CreateExpenseCatch(r)
    \/ \E r \in Reqs : ApiReply(r)

\* No browser takes part: the slot stays as it starts, empty.
InitServer == Init /\ slot = NoItem

SpecServer == InitServer /\ [][NextServer]_vars

\* createExpense under callers who make one call at a time, with valid and
\* invalid bodies.
CallBodies == {Body(Num(199500), K1), Body(Num(199500), K2)}

\* A body that also names a user, the key padded with white space; a body
\* with an amount of 0.004.
ForgedBodies == {[user |-> "u2"] @@ Body(Num(199500), <<" ", "k", "2", " ">>)}
SmallBodies == {Body(Num(4), K1)}
CallInputs == CallBodies \cup InvalidBodies \cup ForgedBodies \cup SmallBodies

NextCalls ==
    \/ \E u \in Users, b \in CallInputs : CreateCall(u, b)
    \/ \E r \in Reqs : CreateExpenseLookup(r)
    \/ \E r \in Reqs : CreateExpenseCreate(r)
    \/ \E r \in Reqs : CreateExpenseCatch(r)
    \/ \E r \in Reqs : ApiReply(r)

SpecCalls == InitServer /\ [][NextCalls]_vars

\* deleteExpense under callers who make one call at a time, on a store that
\* two createExpense calls have filled and earlier deletes may have thinned:
\* documents 1 and 2, each of either user, under different keys (the indexes
\* admit no others), or what is left of them.  The ids asked for are those
\* handed out, the next one and a malformed one.
SeededDocs ==
    {NewExpense(i, u, b) : i \in 1..2, u \in Users, b \in CallBodies}

SeededStores ==
    {s \in SUBSET SeededDocs :
        \A x, y \in s : x # y => (x.id # y.id /\ x.idempotencyKey # y.idempotencyKey)}

InitDeletes ==
    /\ store \in SeededStores
    /\ nextId = 3
    /\ reqs = EmptyBag
    /\ issued = 2
    /\ InitClient /\ slot = NoItem
    /\ InitCalls

NextDeletes ==
    \E u \in Users, id \in (1..nextId) \cup {Malformed} : DeleteCall(u, id)

SpecDeletes == InitDeletes /\ [][NextDeletes]_vars

\* getExpenses on a store that three createExpense calls have filled (and
\* deletes may have thinned): documents 1 to 3, each of either user, with one
\* of three payloads, document i under the i-th key.
ListedPayloads ==
    {[category |-> Food, date |-> "2026-01-05", amount |-> Num(199500)],
     [category |-> Food, date |-> "2026-03-09", amount |-> Num(1250)],
     [category |-> Travel, date |-> "2026-02-18", amount |-> Num(1250)]}

ListedDoc(i, u, p) ==
    NewExpense(i, u, [Body(p.amount, KeyPool[i]) EXCEPT !.category = p.category,
                                                        !.date = p.date])

ListedStores ==
    {{ListedDoc(i, f[i][1], f[i][2]) : i \in DOMAIN f} :
        f \in UNION {[S -> Users \X ListedPayloads] : S \in SUBSET (1..3)}}

InitGets ==
    /\ store \in ListedStores
    /\ nextId = 4
    /\ reqs = EmptyBag
    /\ issued = 3
    /\ InitClient /\ slot = NoItem
    /\ InitCalls

NextGets ==
    \E u \in Users, category \in {<<>>, Food, Travel},
       sort \in {"", "date_asc", "date_desc", "amount"} : GetCall(u, category, sort)

SpecGets == InitGets /\ [][NextGets]_vars

\* One requestWithRetry call on its own, with any retries argument up to
\* MaxRetries and an operation that can end in any outcome at each invocation.
InitRetry ==
    /\ InitStore
    /\ InitClient /\ slot = NoItem
    /\ dels = <<>>
    /\ got = NoGet
    /\ rw \in {NewRetry(n, d) : n \in 0..MaxRetries, d \in DelayValues}

NextRetry ==
    \/ \E o \in Outcomes : RetryInvoke(o)
    \/ RetryWait

SpecRetry == InitRetry /\ [][NextRetry]_vars

\* Every invocation of the operation settles and every timer fires.
SpecRetryFair == SpecRetry /\ WF_vars(NextRetry)

\* One browser against the server.
Next ==
    \/ Commit
    \/ \E u \in Users : Login(u)
    \/ Logout
    \/ Reload
    \/ \E f \in FormInputs : HandleExpenseSubmit(f)
    \/ RetryPendingSave
    \/ \E c \in Chains, r \in Reqs : ChainResponse(c, r)
    \/ \E c \in Chains, r \in Reqs : ChainTimeout(c, r)
    \/ InfoTimer
    \/ \E r \in Reqs : CreateExpenseLookup(r)
    \/ \E r \in Reqs : CreateExpenseCreate(r)
    \/ \E r \in Reqs : CreateExpenseCatch(r)

Spec == Init /\ [][Next]_vars

\* The commit in which the replay effect goes past its guard.
ReplayCommit == Commit /\ replayAttempted' /\ ~replayAttempted

\* React runs a pending render and its effects; a replay that is due is not
\* put off for ever by page reloads.
SpecFair == Spec /\ WF_vars(Commit) /\ SF_vars(ReplayCommit)

\* One browser against the server, the forms with a date that does not parse
\* included.
NextForms ==
    \/ Commit
    \/ \E u \in Users : Login(u)
    \/ Logout
    \/ Reload
    \/ \E f \in FormInputs \cup DateForms : HandleExpenseSubmit(f)
    \/ RetryPendingSave
    \/ \E c \in Chains, r \in Reqs : ChainResponse(c, r)
    \/ \E c \in Chains, r \in Reqs : ChainTimeout(c, r)
    \/ InfoTimer
    \/ \E r \in Reqs : CreateExpenseLookup(r)
    \/ \E r \in Reqs : CreateExpenseCreate(r)
    \/ \E r \in Reqs : CreateExpenseCatch(r)

SpecForms == Init /\ [][NextForms]_vars

\* One browser against the server, started on a localStorage it did not write.
SpecStorage == InitStorage /\ [][Next]_vars

\* One browser against the server, the user deleting listed expenses too.
NextDeleting ==
    \/ Commit
    \/ \E u \in Users : Login(u)
    \/ Logout
    \/ Reload
    \/ \E f \in FormInputs : HandleExpenseSubmit(f)
    \/ RetryPendingSave
    \/ \E c \in Chains, r \in Reqs : ChainResponse(c, r)
    \/ \E c \in Chains, r \in Reqs : ChainTimeout(c, r)
    \/ InfoTimer
    \/ \E x \in store : HandleDeleteExpense(x)
    \/ \E r \in Reqs : CreateExpenseLookup(r)
    \/ \E r \in Reqs : CreateExpenseCreate(r)
    \/ \E r \in Reqs : CreateExpenseCatch(r)

SpecDeleting == Init /\ [][NextDeleting]_vars

\* ===================================================================== claims
KeyOf(r) == Trim(r.body.idempotencyKey)
Done(r) == r.pc = "done"
\* a document has been deleted: more ids were handed out than documents exist
SomeDeleted == nextId - 1 > Cardinality(store)

\* C1: in every reachable state, whatever the interleaving of createExpense
\* and deleteExpense requests of any callers, the store holds at most one
\* document for each (user, idempotencyKey) pair.
C1_AtMostOnePerUserKey ==
    \A x, y \in store :
        (x.user = y.user /\ x.idempotencyKey = y.idempotencyKey) => x = y

\* C1 witness: after a delete, two requests of one user and key raced past
\* the lookup; one created the document and the index rejected the other.
C1_RaceAfterDelete ==
    /\ SomeDeleted
    /\ \E r \in Reqs, x \in store :
          /\ r.raced /\ r.rejectedBy = r.user
          /\ x.user = r.user /\ x.idempotencyKey = KeyOf(r)

\* C2: once a createExpense(O, K, p) call has created a document,
\* every later createExpense(O, K, p') call answers 200, success, the
\* "existing entry" info and that same document, without calling
\* Expense.create.
C2_LaterCallReturnsExisting ==
    \A r \in Reqs :
        (Done(r) /\ r.atCall # 0 /\ ~r.fault)
            => /\ r.status = 200 /\ r.info
               /\ r.data.id = r.atCall
               /\ r.creates = 0

\* C3: a key already used by one user never prevents another user from
\* creating a document with it: no insert is rejected because of a document
\* owned by somebody else than the caller.
C3_KeyOfOneUserNeverBlocksAnother ==
    \A r \in Reqs : r.rejectedBy \in {"", r.user}

\* C4: when two createExpense requests of the same (user, key) are both past
\* the initial lookup before either creates, exactly one creation succeeds
\* (201) and the other answers 200 with the winner's document, not an error.
\* Stated for the runs in which no document is deleted and no storage call
\* throws a connection error.
C4_RaceLoserGetsWinner ==
    ~SomeDeleted =>
        \A r \in Reqs :
            (Done(r) /\ r.raced /\ ~r.fault)
                => \/ r.status = 201
                   \/ /\ r.status = 200 /\ r.info
                      /\ r.data.user = r.user /\ r.data.idempotencyKey = KeyOf(r)

\* ------------------------------------------------------ claims C5 .. C10
\* The requests the browser sent (a direct API caller's are tagged "api").
ClientReqs == {r \in Reqs : r.chain # "api"}

Success(r) == Done(r) /\ r.status \in {200, 201}

\* C5: whatever retries, reloads and replays happen, the server holds at most
\* one expense record per submission key, and every success response to a POST
\* of that submission carries that one record (so a resubmission after a lost
\* response gets the id of the record already stored).
C5_OneRecordPerSubmission ==
    /\ \A x, y \in store : x.idempotencyKey = y.idempotencyKey => x = y
    /\ \A r \in ClientReqs :
           Success(r) => /\ r.data \in store
                         /\ r.data.user = r.user
                         /\ r.data.idempotencyKey = KeyOf(r)

\* A replay is answered with the stored record while the pending slot still
\* holds the submission and the 201 that stored it reached nobody.
C5_ResubmitAfterLostResponse ==
    \E r \in ClientReqs :
        /\ Done(r) /\ r.status = 200 /\ r.chain = "replay"
        /\ r.data \in store
        /\ slot = SlotRecord(r.body, r.user)
        /\ pendingFrom = "load"
        /\ \A q \in Reqs : q.status # 201

\* C6 (state part): one key is generated per validated submission, and every
\* POST, every attempt chain and the pending record of submission n carry the
\* key generated for submission n.
C6_KeyOfItsSubmission ==
    /\ keyCount = subs
    /\ \A r \in ClientReqs :
           /\ r.body.sub \in 1..subs
           /\ r.body.idempotencyKey = CreateIdempotencyKey(r.body.sub)
    /\ \A c \in Chains :
           /\ c.payload.sub \in 1..subs
           /\ c.payload.idempotencyKey = CreateIdempotencyKey(c.payload.sub)
    /\ pendingExpense # NoPending =>
           pendingExpense.payload.idempotencyKey
               = CreateIdempotencyKey(pendingExpense.payload.sub)

\* A step that starts a replay chain.
ReplayStarts ==
    \E c \in BagToSet(chains') :
        /\ c.isReplay /\ c.attempt = 0
        /\ CopiesIn(c, chains') > CopiesIn(c, chains)

\* C6: every POST of a submission carries the key generated once for it at
\* submit time, and a step that starts a replay neither generates a key nor
\* changes the pending slot.
C6_SameKeyOnEveryPost ==
    /\ []C6_KeyOfItsSubmission
    /\ [][ReplayStarts => (keyCount' = keyCount /\ slot' = slot)]_vars

\* The first attempt, its automatic retry and a replay of one submission are
\* under way together.
C6_RetryAndReplayOfOneSubmission ==
    \E r1, r2, r3 \in ClientReqs :
        /\ r1.chain = "fresh" /\ r1.attempt = 1
        /\ r2.chain = "replay"
        /\ r3.chain = "orphan"
        /\ r1.body = r2.body /\ r2.body = r3.body

\* C7: within one activation of an account the replay effect starts at most
\* one replay; once it has, no further replay is started by the effect until
\* the next activation, whatever the outcome of the replay.
C7_ReplayOncePerActivation == autoReplays <= 1

\* The replay of a record found in the slot at activation has failed: the
\* record is still pending and nothing is under way.
C7_StaleReplayFailed ==
    /\ Idle
    /\ autoReplays = 1
    /\ replayAttempted
    /\ pendingFrom = "load"
    /\ pendingExpense # NoPending
    /\ ~expenseSubmitting
    /\ chains = EmptyBag

\* C8: every POST the browser sends carries the credentials of the account
\* that made the submission, and the pending record the page holds belongs to
\* the account it shows.
C8_NoForeignReplay ==
    /\ \A r \in ClientReqs : r.user = r.body.owner
    /\ \A c \in Chains : c.user = c.payload.owner
    /\ (Idle /\ pendingExpense # NoPending) =>
           /\ pendingExpense.userKey = AccountKey(user)
           /\ pendingExpense.payload.owner = user

\* Account u2 is active and settled while the slot holds a record of u1.
C8_ForeignRecordInSlot ==
    /\ Idle
    /\ user = "u2"
    /\ slot.kind = "json"
    /\ slot.value.userKey = "u1"
    /\ pendingExpense = NoPending

\* The load effect is about to run for an account that does not own the
\* record in the slot.
ForeignRecordLoads ==
    /\ ~Idle
    /\ LoadEffectRuns
    /\ user # ""
    /\ slot.kind = "json"
    /\ slot.value.userKey # AccountKey(user)

\* C9: when an account is activated and the slot holds a pending record of
\* another account, the load removes the record: the slot is empty afterwards.
C9_ForeignRecordPurged ==
    [][(ForeignRecordLoads /\ rendered' = Current) => slot' = NoItem]_vars

\* C10: once the last attempt of a submitExpense call has been
\* answered with a 5xx, so that the call ends in failure, the slot holds the
\* record of that submission.
C10_FailedSubmissionStillPending ==
    \A c \in Chains, r \in Reqs :
        (Awaits(c, r) /\ Done(r) /\ r.status >= 500 /\ c.attempt = Retries)
            => slot = SlotRecord(c.payload, c.user)

\* ------------------------------------------------------ claims C11, C12, C14
\* The step ends the submitExpense call of chain c while the response r it
\* waits on is there (a page reload, which drops every call, is not such a
\* step).
CallEndsAt(c, r) ==
    /\ Awaits(c, r) /\ Done(r) /\ r.status # 0
    /\ chains' = chains (-) SetToBag({c})
    /\ reqs' = reqs (-) SetToBag({r})
    /\ rendered' = rendered

\* The step in which submitExpense receives the success response r: the call
\* ends and the notice of a saved expense is shown.
SuccessReceived(c, r) ==
    /\ CallEndsAt(c, r)
    /\ Success(r)
    /\ submitInfo' \in {Saved, ExistingEntry}

\* C11: when submitExpense receives a success response (201 or 200), for a
\* fresh submission or a replay, the slot is empty, pendingExpense is null
\* and the form holds its initial values afterwards.
C11_ConfirmedClearsPending ==
    [][\A c \in Chains, r \in Reqs :
          SuccessReceived(c, r)
              => (slot' = NoItem /\ pendingExpense' = NoPending /\ expenseForm' = Blank)]_vars

\* The replay of a record loaded from the slot has been answered with the
\* stored record: nothing is pending and the form is reset.
C11_ReplayConfirmed ==
    /\ submitInfo = ExistingEntry
    /\ autoReplays = 1
    /\ chains = EmptyBag /\ ~expenseSubmitting
    /\ store # {}
    /\ slot = NoItem /\ pendingExpense = NoPending /\ expenseForm = Blank

\* C12: when the server answers a POST of a submission with 400, no further
\* POST is made for it by requestWithRetry and, once the call has ended, the
\* slot does not hold the record of that submission.
C12_RefusedSubmissionLeavesNoRecord ==
    [][\A c \in Chains, r \in Reqs :
          (CallEndsAt(c, r) /\ r.status = 400)
              => (issued' = issued /\ slot' # SlotRecord(c.payload, c.user))]_vars

\* What the spec asks of a form before anything is sent or saved, on the
\* payload built from the form.
PassesFormValidation(p) ==
    /\ IsFinite(p.amount) /\ p.amount.mills > 0
    /\ Trim(p.category) # <<>>
    /\ Trim(p.description) # <<>>
    /\ DateParses(p.date)

\* C14: a form whose amount is not a finite number above 0, whose category or
\* description is empty after trimming, or whose date is not a calendar date
\* causes no POST, no key and no pending record: every POST sent, every call
\* under way and every pending record comes from a form that passes.
C14_InvalidFormSendsNothing ==
    /\ \A r \in ClientReqs : PassesFormValidation(r.body)
    /\ \A c \in Chains : PassesFormValidation(c.payload)
    /\ slot.kind = "json" => PassesFormValidation(slot.value.payload)
    /\ pendingExpense # NoPending => PassesFormValidation(pendingExpense.payload)

\* ------------------------------------------------------ claims C13, C18 .. C20
\* A createExpense request whose body the validation refuses.
Refused(r) == r.body \in InvalidBodies

\* C13: a createExpense call whose body has an empty (after trimming) key, a
\* non-finite or non-positive amount, an empty (after trimming) category or
\* description, or an unparseable date answers 400 without a document, makes
\* no Expense.findOne and no Expense.create call, and the store does not
\* change while the call runs.
C13_InvalidBodyRefused ==
    /\ [](\A r \in Reqs :
             Refused(r) => /\ r.lookups = 0 /\ r.creates = 0
                           /\ Done(r) => (r.status = 400 /\ r.data = NoExpense /\ ~r.info))
    /\ [][(\E r \in Reqs : Refused(r)) => store' = store]_vars

\* A body with an unparseable date has been refused while the store held a
\* document.
C13_RefusedWhileStoreHeld ==
    /\ store # {}
    /\ \E r \in Reqs : /\ Refused(r) /\ ~DateParses(r.body.date)
                        /\ Done(r) /\ r.status = 400

\* C18: when the lookup that follows a rejected insert finds nothing, the
\* lookup is made again before a 5xx answer is sent: a call that answers 5xx
\* after a rejected insert (and no storage error) has made more lookups than
\* the one before the insert and one after it.
C18_EmptyLookupRetried ==
    \A r \in Reqs :
        (Done(r) /\ r.status >= 500 /\ r.rejectedBy # "" /\ ~r.fault) => r.lookups > 2

\* The document a deleteExpense call was aimed at, if the caller owned one.
Owned(d) == {x \in d.before : x.id = d.id /\ x.user = d.user}

\* C19: deleteExpense(O, id) removes nothing but the document with that id
\* owned by O; when O owns no such document (it is somebody else's, the id
\* was never handed out, or the id is malformed) and the storage call does
\* not fail, the store is left as it was and the answer is 404 'Expense not
\* found'.
C19_DeleteOnlyOwn ==
    \A i \in 1..Len(dels) :
        LET d == dels[i]
        IN  /\ d.after \subseteq d.before
            /\ d.before \ d.after \subseteq Owned(d)
            /\ (Owned(d) = {} /\ ~d.fault)
                   => (d.after = d.before /\ d.status = 404 /\ d.data = NoExpense)

\* A delete by somebody who does not own the document and a delete with a
\* malformed id were both answered while the store held documents.
C19_ForeignAndMalformedDeletes ==
    \E i, j \in 1..Len(dels) :
        /\ \E x \in dels[i].before : x.id = dels[i].id /\ x.user # dels[i].user
        /\ dels[i].status = 404
        /\ dels[j].id = Malformed /\ dels[j].before # {} /\ dels[j].status = 404

\* C20: deleting twice leaves the store as deleting once does; the first
\* deleteExpense(O, id) on a document O owns answers 200 with that document,
\* and the same call made again answers 404 and changes nothing (storage
\* failures aside).
C20_DeleteTwiceAsOnce ==
    \A i \in 1..Len(dels) :
        LET d == dels[i]
            once == StoreAfterDelete(d.before, d.user, d.id)
        IN  /\ StoreAfterDelete(once, d.user, d.id) = once
            /\ (Owned(d) # {} /\ ~d.fault)
                   => (d.status = 200 /\ d.data \in Owned(d) /\ d.after = once)
            /\ (i > 1 /\ ~d.fault /\ ~dels[i - 1].fault
                   /\ dels[i - 1].user = d.user /\ dels[i - 1].id = d.id
                   /\ d.before = dels[i - 1].after)
                   => (d.status = 404 /\ d.after = d.before)

\* The caller deleted its own document, leaving another one in the store,
\* and made the same call again.
C20_SecondDeleteOfOwnRecord ==
    /\ Len(dels) = 2
    /\ dels[1].status = 200 /\ dels[1].after # {}
    /\ dels[2].user = dels[1].user /\ dels[2].id = dels[1].id
    /\ dels[2].before = dels[1].after
    /\ dels[2].status = 404

\* ------------------------------------------------------ claims C15 .. C17
Last(s) == s[Len(s)]
Settled == rw.pc \in {"returned", "thrown"}

\* C15: requestWithRetry invokes the operation again only after a failure
\* without a response status or with a status of 500 or more; after a failure
\* with a 4xx status it makes no further invocation and throws that error.
C15_RetryOnlyTransient ==
    /\ \A i \in 1..(Len(rw.outcomes) - 1) :
           rw.outcomes[i] = 0 \/ rw.outcomes[i] >= 500
    /\ (rw.outcomes # <<>> /\ Last(rw.outcomes) \in 400..499)
           => (rw.pc = "thrown" /\ rw.result = Last(rw.outcomes))

\* A retry after a 503 ended in a 400, which was thrown with a retry left.
C15_ThrownAfter4xx ==
    /\ rw.retries = 2
    /\ rw.outcomes = <<503, 400>>
    /\ rw.pc = "thrown" /\ rw.result = 400

\* C16 (state part): at most retries + 1 invocations are made; a call that
\* returned stopped at its first successful invocation and returned its
\* result; a call all of whose retries + 1 invocations failed retryably has
\* thrown the error of the last one.
C16_AttemptsBounded ==
    /\ Len(rw.outcomes) <= rw.retries + 1
    /\ \A i \in 1..(Len(rw.outcomes) - 1) : ~Resolved(rw.outcomes[i])
    /\ (rw.outcomes # <<>> /\ Resolved(Last(rw.outcomes)))
           => (rw.pc = "returned" /\ rw.result = Last(rw.outcomes))
    /\ rw.pc = "returned" => (rw.outcomes # <<>> /\ Resolved(Last(rw.outcomes)))
    /\ (Len(rw.outcomes) = rw.retries + 1 /\ ~Resolved(Last(rw.outcomes)))
           => (rw.pc = "thrown" /\ rw.result = Last(rw.outcomes))

\* C16: for every retries >= 0 requestWithRetry invokes the operation at most
\* retries + 1 times and terminates; it returns the result of the first
\* successful invocation without invoking again, and when all retries + 1
\* invocations fail retryably it throws the error of the last one.
C16_BoundedAndTerminates ==
    /\ []C16_AttemptsBounded
    /\ <>Settled

\* With retries = 2 all three invocations failed retryably and the error of
\* the last one was thrown.
C16_AllAttemptsFailed ==
    /\ rw.retries = 2
    /\ rw.outcomes = <<0, 503, 500>>
    /\ rw.pc = "thrown" /\ rw.result = 500

\* C17: the delay waited before the k-th retry is delayMs * k, and a call
\* that has ended waited once between consecutive invocations only: not
\* after its last failed attempt and not after a non-retryable failure.  So
\* 503, 503, success with retries = 2 waits delayMs and 2 * delayMs.
C17_LinearBackoff ==
    /\ \A k \in 1..Len(rw.delays) : rw.delays[k] = rw.delayMs * k
    /\ Len(rw.delays) = rw.attempt
    /\ rw.outcomes # <<>> =>
           Len(rw.delays) = Len(rw.outcomes) - (IF rw.pc = "call" THEN 0 ELSE 1)
    /\ (rw.retries = 2 /\ rw.outcomes = <<503, 503, 200>>)
           => rw.delays = <<rw.delayMs, 2 * rw.delayMs>>

\* 503, 503, success with retries = 2 and the default delayMs.
C17_TwoDelaysThenSuccess ==
    /\ rw.retries = 2 /\ rw.delayMs = DelayMs
    /\ rw.outcomes = <<503, 503, 200>>
    /\ rw.pc = "returned"
    /\ rw.delays = <<DelayMs, 2 * DelayMs>>

\* ------------------------------------------------------ claims C21 .. C23
\* C21: every document createExpense stores has the authenticated caller
\* (req.user._id) as its user and the trimmed key of the request as its
\* idempotencyKey, whatever the body holds; no body makes a document appear
\* under another user.
C21_OwnerFromCaller ==
    [][\A x \in store' \ store :
          \E r \in Reqs : /\ r.pc = "create"
                          /\ x.user = r.user
                          /\ x.idempotencyKey = Trim(r.body.idempotencyKey)]_vars

\* A call whose body names another user and pads the key has stored its
\* document.
C21_ForgedUserIgnored ==
    \E r \in Reqs :
        /\ Done(r) /\ r.status = 201
        /\ "user" \in DOMAIN r.body /\ r.body.user # r.user
        /\ r.body.idempotencyKey # Trim(r.body.idempotencyKey)
        /\ r.data \in store

\* C22: a stored document is never modified: whatever happens, a document
\* that is still stored is as it was, and the step of a createExpense call
\* whose (user, key) is already stored, with any payload, leaves the whole
\* store as it was.
C22_NeverModified ==
    /\ [][\A x \in store : \A y \in store' : y.id = x.id => y = x]_vars
    /\ [][\A r \in Reqs :
             (/\ CopiesIn(r, reqs') < CopiesIn(r, reqs)
              /\ FindOne(store, r.user, KeyOf(r)) # NoExpense)
                 => store' = store]_vars

\* A call with another payload under a stored key was answered with the stored
\* document, which differs from the payload sent.
C22_OtherPayloadSameKey ==
    \E r \in Reqs :
        /\ Done(r) /\ r.status = 200
        /\ r.data \in store
        /\ r.data.amount # ToFixed2(r.body.amount.mills)

\* C23: every stored document has an amount above 0 with at most two
\* fractional digits, for every amount the validation accepts, amounts under
\* 0.005 included.
C23_AmountPositiveTwoDigits ==
    \A x \in store : x.amount > 0 /\ x.amount % 10 = 0

\* ------------------------------------------------------ claim C26
RECURSIVE SumOf(_)
SumOf(S) ==
    IF S = {} THEN 0
    ELSE LET x == CHOOSE y \in S : TRUE IN x.amount + SumOf(S \ {x})

\* C26: getExpenses for caller O answers with exactly the documents whose
\* user is O (and whose category is the category parameter when one is
\* given), by ascending date when sort is 'date_asc' and by descending date
\* for any other or missing sort, with count the number of documents returned
\* and total the sum of their amounts (0 when there are none).
C26_ListOwnSortedWithTotal ==
    got.status = 200 =>
        LET wanted == {x \in store :
                          /\ x.user = got.user
                          /\ got.category # <<>> => x.category = got.category}
            n == Len(got.data)
        IN  /\ {got.data[i] : i \in 1..n} = wanted
            /\ n = Cardinality(wanted)
            /\ \A i \in 1..(n - 1) :
                   IF got.sort = "date_asc"
                   THEN DateTime(got.data[i].date) <= DateTime(got.data[i + 1].date)
                   ELSE DateTime(got.data[i].date) >= DateTime(got.data[i + 1].date)
            /\ got.count = n
            /\ got.total = SumOf(wanted)

\* An ascending listing of one category returned two of the caller's three
\* documents, of different dates, while the other user has a document too.
C26_FilteredAscendingListing ==
    /\ got.status = 200
    /\ got.sort = "date_asc" /\ got.category = Food
    /\ got.count = 2
    /\ got.data[1].date # got.data[2].date
    /\ Cardinality(store) = 3
    /\ \E x \in store : x.user = got.user /\ x.category # Food

\* ------------------------------------------------ claims C24, C25, C27..C29
\* The step is a fresh submission: handleExpenseSubmit has generated a key
\* and submitExpense has started the call c.
FreshSubmission(c) ==
    /\ keyCount' = keyCount + 1
    /\ c \in BagToSet(chains')
    /\ ~c.isReplay /\ c.attempt = 0
    /\ c.payload.sub = subs'

\* The slot holds data that does not decode into a pending record.
Undecodable(item) ==
    /\ item # NoItem
    /\ JsonParseThrows(item) \/ JsonParse(item).kind # "record"

\* C25: when an account is activated and the slot holds data that does not
\* decode into a record, the load leaves pendingExpense null and the slot
\* empty, and no replay is ever issued from such data.
C25_UndecodableSlotPurged ==
    /\ [][(/\ ~Idle /\ LoadEffectRuns /\ AccountKey(user) # ""
           /\ Undecodable(slot)
           /\ rendered' = Current)
             => slot' = NoItem /\ pendingExpense' = NoPending]_vars
    /\ [](\A c \in Chains : c.isReplay => c.payload # NoFields)

\* C28: at the step in which a fresh submission issues its first POST, the
\* slot holds the record of that submission, whatever object user is.
C28_SavedBeforeFirstPost ==
    [][\A c \in BagToSet(chains') :
          FreshSubmission(c)
              => /\ slot'.kind = "json"
                 /\ JsonParse(slot').kind = "record"
                 /\ JsonParse(slot').payload = c.payload]_vars

\* C24 (state part): the slot is one item: nothing, or one pending record.
C24_OneRecordAtMost ==
    slot = NoItem \/ (slot.kind = "json" /\ slot.value.kind = "record")

\* C24: savePendingExpense for the active account A with payload p leaves the
\* slot holding the one record { p, userKey: A }, whatever it held before,
\* and the slot never holds more than one record.
C24_SaveReplacesSlot ==
    /\ []C24_OneRecordAtMost
    /\ [][\A c \in BagToSet(chains') :
             (FreshSubmission(c) /\ AccountKey(user) # "")
                 => /\ slot'.kind = "json"
                    /\ JsonParse(slot') = PendingRecord(c.payload, AccountKey(user))
                    /\ pendingExpense' = PendingRecord(c.payload, AccountKey(user))]_vars

\* The slot holds the record of the second submission, saved over the record
\* of the first, which was never confirmed.
C24_SecondRecordOverFirst ==
    /\ slot.kind = "json"
    /\ slot.value.payload.sub = 2
    /\ \A x \in store : x.idempotencyKey # CreateIdempotencyKey(1)

\* C27: at most one create-expense request chain of the browser is in flight
\* at any time: the replay effect does not start a chain for the record a
\* fresh submission has just saved.
C27_OneChainInFlight == BagCardinality(chains) <= 1

\* C29: the pending record of a submission leaves the slot only through a
\* success response to a POST that carries the key of that record.
C29_ClearedByOwnConfirmation ==
    [][(slot.kind = "json" /\ slot' = NoItem)
          => \E c \in Chains, r \in Reqs :
                /\ SuccessReceived(c, r)
                /\ c.payload.idempotencyKey = slot.value.payload.idempotencyKey]_vars

\* --------------------------------------------------------------- claim C30
\* C30: once an expense has been deleted by its owner, no record with its
\* owner and key is stored again: no replay or retry of the submission that
\* created it re-creates it.
C30_DeletedNotRecreated ==
    \A i \in 1..Len(dels) :
        \A d \in dels[i].before \ dels[i].after :
            \A x \in store :
                ~(x.user = d.user /\ x.idempotencyKey = d.idempotencyKey)

\* --------------------------------------------------------- claims C31, C32
\* C31: every createExpense invocation that has ended has sent a response,
\* with status 200, 201, 400 or 500, whatever the storage calls did.
C31_AlwaysOneResponse ==
    \A r \in Reqs : Done(r) => r.status \in {200, 201, 400, 500}

\* C32: the record in the data field of a createExpense response belongs to
\* the caller, on the created path, the pre-check path and the duplicate-key
\* path, also when another user has used the same key.
C32_DataOwnedByCaller ==
    \A r \in Reqs : (Done(r) /\ r.data # NoExpense) => r.data.user = r.user

\* A request whose insert was rejected because of another user's document
\* under the same key has been answered from the duplicate-key path with a
\* record.
C32_AnsweredDespiteForeignKey ==
    \E r \in Reqs : /\ Done(r) /\ r.status = 200 /\ r.creates = 1
                     /\ r.rejectedBy # "" /\ r.rejectedBy # r.user
                     /\ r.data # NoExpense

\* --------------------------------------------------------------- claim C33
\* The load effect of an activation has found a record owned by the active
\* account, and the replay effect has not run yet.
OwnRecordLoaded ==
    /\ HasToken(user)
    /\ pendingFrom = "load"
    /\ pendingExpense # NoPending
    /\ pendingExpense.userKey = AccountKey(user)
    /\ autoReplays = 0
    /\ issued < MaxPosts

\* The replay effect of this activation has posted the loaded record.
AutoReplayed ==
    /\ autoReplays = 1
    /\ replayAttempted
    /\ pendingFrom = "load"
    /\ pendingExpense # NoPending
    /\ \E c \in Chains :
          /\ c.isReplay /\ c.attempt = 0
          /\ c.payload.idempotencyKey = pendingExpense.payload.idempotencyKey

\* C33 as stated: once an account with a token is activated with its own
\* pending record in the slot, one automatic replay carrying the record's key
\* is eventually posted (as far as the bound on posts allows).
C33_ReplayAlwaysIssued ==
    OwnRecordLoaded ~> (AutoReplayed \/ issued >= MaxPosts)

\* C33, amended: the replay is eventually posted unless a success response to
\* a request still in flight from before the activation empties the slot
\* first; and at most one replay is posted per activation.
C33_ReplayIssuedUnlessCleared ==
    /\ OwnRecordLoaded ~> (AutoReplayed \/ slot = NoItem \/ issued >= MaxPosts)
    /\ [](autoReplays <= 1)

\* The replay of a record found at activation is in flight.
C33_ReplayOfLoadedRecord ==
    /\ AutoReplayed
    /\ expenseSubmitting
    /\ slot.kind = "json"

\* --------------------------------------------------------------- claim C34
\* The pending record in the slot can never be confirmed: the server's
\* validation refuses its payload, and every replay posts that same payload.
Refusable ==
    /\ slot.kind = "json"
    /\ JsonParse(slot).kind = "record"
    /\ ValidationStatus(JsonParse(slot).payload) # 0

\* Submission n can never be confirmed: no record is stored under its key,
\* the slot is empty, none of its submitExpense calls is under way and no
\* request with its key is left.
Lost(n) ==
    /\ \A x \in store : x.idempotencyKey # CreateIdempotencyKey(n)
    /\ slot = NoItem
    /\ \A c \in Chains : c.payload.sub # n
    /\ \A r \in Reqs : r.body.sub # n

\* C34: no reachable state leaves a submission that passed the client's
\* validation, and was not superseded, failing for ever: its pending record
\* is one the server accepts when it is replayed, and the record of the
\* latest submission stays in the slot until the server holds the expense.
C34_NoPermanentFailure ==
    /\ ~Refusable
    /\ subs > 0 => ~Lost(subs)

============================================================================
